---- MODULE Spec2Model ----
(***************************************************************************)
(* Model of src/5-1/door_hacking.py: the multi-process brute-force search  *)
(* of a ZIP password (unlock_zip, the orchestrator, and _worker).          *)
(*                                                                         *)
(* A character is modelled by its index in ALLOWED (1 is ALLOWED[0], ...), *)
(* so the order of the integers is the order of the characters, and a      *)
(* candidate password is a sequence of LENGTH such indices.                *)
(*                                                                         *)
(* multiprocessing.Queue.put appends to a buffer of the calling process;   *)
(* a feeder thread of that process (one per queue) later writes the item   *)
(* to the queue's pipe, where get/get_nowait of the parent can see it.     *)
(* A process ends only after its feeder threads have flushed.              *)
(***************************************************************************)
EXTENDS Integers, Sequences, FiniteSets

\* ---------------------------------------------------------------- bounds
\* Largest alphabet (a prefix of ALLOWED) and password length explored.
MaxAlpha == 2
MaxLen == 2
\* Largest search space (alphabet size ^ length) explored with several workers.
MaxSpace == 4
\* Requested worker counts go from 1 to alphabet size + MaxExtraWorkers.
MaxExtraWorkers == 1
\* Largest batch size (report_every) explored.
MaxReportEvery == 2
\* Number of verifier calls that may fail with an error other than a wrong
\* password or an unsupported scheme.
MaxTransient == 1
\* The single-worker specification explores alphabets and lengths up to these.
SoloAlpha == 3
SoloLen == 2
SoloSpace == 9
\* The partition and the enumeration, as functions, are also checked for
\* every worker count up to the alphabet size + PureExtraWorkers.
PureExtraWorkers == 5

\* The specification with fairness explores alphabets, lengths and search
\* spaces up to these.
LiveAlpha == 2
LiveLen == 2
LiveSpace == 2

VARIABLES
    \* inputs of the run
    alphabet,        \* ALLOWED: the sequence of characters
    length,          \* LENGTH
    workers,         \* the workers argument of unlock_zip
    report_every,    \* the report_every argument
    archive,         \* what the ZIP file is: "empty", "ok", "unsupported", "unreadable"
    target,          \* the password of the archive (a candidate, or NoTarget)
    faultsLeft,      \* verifier calls that may still raise another Exception
    \* shared between the processes
    found_evt,       \* Event: TRUE when set
    result_q,        \* result_q's pipe: sequence of <<kind, payload>>
    progress_q,      \* progress_q's pipe: sequence of integers
    \* the workers (functions over the started processes)
    procs,           \* the buckets of the started processes, in start order
    wpc,             \* where each worker is
    pidx,            \* index of `first` in the worker's prefixes
    tidx,            \* index of `tail` in product(ALLOWED, repeat=LENGTH-1)
    attempts,        \* the worker's local counter
    outP,            \* progress_q items put by the worker, not yet in the pipe
    outR,            \* result_q items put by the worker, not yet in the pipe
    pending,         \* the outcome the worker is about to put, or NoOutcome
    \* the orchestrator
    opc,             \* where unlock_zip is
    total_attempts,
    found_pwd,
    status,
    report,          \* the final log line: "none" until it is written
    returned,        \* the value unlock_zip returns
    password_txt,    \* what was written to password.txt, or None
    extracted,       \* TRUE once extractall was called
    \* history (not read by the program)
    tried,           \* per worker, the candidates given to the verifier, in order
    sent,            \* per worker, the attempts it has put on progress_q
    emitted,         \* the <<worker, kind>> of every result_q.put, in order
    received,        \* the result messages the orchestrator got, in order
    sentAtEmit,      \* per worker, attempts put when the first outcome was put
    sentAtSet,       \* per worker, attempts put when found_evt was first set
    callsAtSet       \* per worker, verifier calls made when found_evt was first set

cfgVars == <<alphabet, length, workers, report_every, archive, target>>
sharedVars == <<found_evt, result_q, progress_q>>
workerVars == <<procs, wpc, pidx, tidx, attempts, outP, outR, pending>>
orchVars == <<opc, total_attempts, found_pwd, status, report, returned,
              password_txt, extracted>>
histVars == <<tried, sent, emitted, received, sentAtEmit, sentAtSet,
              callsAtSet>>
vars == <<cfgVars, faultsLeft, sharedVars, workerVars, orchVars, histVars>>

NoTarget == <<0>>
NoOutcome == <<"none", <<>>>>
None == <<>>

\* ------------------------------------------------------- pure functions
RECURSIVE Pow(_, _)
Pow(b, e) == IF e = 0 THEN 1 ELSE b * Pow(b, e - 1)

RECURSIVE SumSeq(_)
SumSeq(s) == IF s = <<>> THEN 0 ELSE Head(s) + SumSeq(Tail(s))

RECURSIVE Flatten(_)
Flatten(ss) == IF ss = <<>> THEN <<>> ELSE Head(ss) \o Flatten(Tail(ss))

\* itertools.product(pool, repeat=k): result = [[]]; for each of the k pools,
\* result = [x + [y] for x in result for y in pool].
RECURSIVE Product(_, _)
Product(pool, k) ==
    IF k = 0 THEN << <<>> >>
    ELSE LET prev == Product(pool, k - 1)
         IN  Flatten([i \in 1..Len(prev) |->
                        [j \in 1..Len(pool) |-> Append(prev[i], pool[j])]])

\* Mutant: every character goes to the first bucket.
BucketOfFirst(i, W) == 1

\* buckets = [[] for _ in range(workers)];
\* for idx, ch in enumerate(prefixes): buckets[idx % workers].append(ch)
\* (idx is 0-based: the character at position i has idx = i - 1).
BucketOf(i, W) == ((i - 1) % W) + 1

\* Mutant: the loop stops one character early.
RECURSIVE DistributeShort(_, _, _, _)
DistributeShort(alph, W, i, buckets) ==
    IF i >= Len(alph) THEN buckets
    ELSE DistributeShort(alph, W, i + 1,
                         [buckets EXCEPT ![BucketOf(i, W)] = Append(@, alph[i])])

RECURSIVE Distribute(_, _, _, _)
Distribute(alph, W, i, buckets) ==
    IF i > Len(alph) THEN buckets
    ELSE Distribute(alph, W, i + 1,
                    [buckets EXCEPT ![BucketOf(i, W)] = Append(@, alph[i])])

\* Mutant: buckets = [[]] * workers, every bucket the same list.
BucketsAliased(alph, W) == [b \in 1..W |-> alph]

Buckets(alph, W) == Distribute(alph, W, 1, [b \in 1..W |-> <<>>])

\* for bucket in buckets: if not bucket: continue; ... procs.append(p)
StartedBuckets(alph, W) == SelectSeq(Buckets(alph, W), LAMBDA b : b # <<>>)

\* The candidates a worker with the given prefixes generates, in order:
\* for first in prefixes: for tail in product(ALLOWED, repeat=LENGTH - 1):
\* pwd_str = first + ''.join(tail)
Enumerate(prefixes, alph, len) ==
    LET tails == Product(alph, len - 1)
    IN  Flatten([p \in 1..Len(prefixes) |->
                   [t \in 1..Len(tails) |-> <<prefixes[p]>> \o tails[t]]])

\* The search space: the strings of length len over the alphabet.
Range(f) == { f[i] : i \in DOMAIN f }
Candidates(alph, len) == [1..len -> Range(alph)]

\* ------------------------------------------------------------ the inputs
Alphabet(n) == [i \in 1..n |-> i]

\* Runs with several workers: every alphabet size, length, worker count and
\* batch size within the bounds.
MultiConfigs ==
    { c \in [n : 1..MaxAlpha, len : 1..MaxLen,
             w : 1..(MaxAlpha + MaxExtraWorkers), re : 1..MaxReportEvery] :
        Pow(c.n, c.len) <= MaxSpace /\ c.w <= c.n + MaxExtraWorkers }

\* Runs with one worker, over larger search spaces.
SoloConfigs ==
    { c \in [n : 1..SoloAlpha, len : 1..SoloLen, w : {1},
             re : 1..MaxReportEvery] : Pow(c.n, c.len) <= SoloSpace }

\* Runs checked for termination.
LiveConfigs ==
    { c \in [n : 1..LiveAlpha, len : 1..LiveLen, w : 1..LiveAlpha,
             re : 1..MaxReportEvery] : Pow(c.n, c.len) <= LiveSpace }

Archives == {"empty", "ok", "unsupported", "unreadable"}

InitWith(configs) ==
    /\ \E c \in configs :
         /\ alphabet = Alphabet(c.n)
         /\ length = c.len
         /\ workers = c.w
         /\ report_every = c.re
         /\ archive \in Archives
         /\ target \in IF archive = "ok"
                       THEN Candidates(Alphabet(c.n), c.len) \cup {NoTarget}
                       ELSE {NoTarget}
    /\ faultsLeft = MaxTransient
    /\ found_evt = FALSE
    /\ result_q = <<>>
    /\ progress_q = <<>>
    /\ procs = <<>>
    /\ wpc = <<>> /\ pidx = <<>> /\ tidx = <<>> /\ attempts = <<>>
    /\ outP = <<>> /\ outR = <<>> /\ pending = <<>>
    /\ opc = "setup"
    /\ total_attempts = 0
    /\ found_pwd = None
    /\ status = "None"
    /\ report = "none"
    /\ returned = None
    /\ password_txt = None
    /\ extracted = FALSE
    /\ tried = <<>> /\ sent = <<>> /\ emitted = <<>>
    /\ received = <<>>
    /\ sentAtEmit = <<>> /\ sentAtSet = <<>> /\ callsAtSet = <<>>

Init == InitWith(MultiConfigs)
InitSolo == InitWith(SoloConfigs)

InitLive == InitWith(LiveConfigs)

Procs == 1..Len(procs)
Tails == Product(alphabet, length - 1)

\* Mutant: is_alive() never turns false.
AliveAlways(w) == TRUE

\* A process is alive until _worker has returned and the feeder threads of
\* its two queues have written everything it put.
Alive(w) == ~(wpc[w] = "returned" /\ outP[w] = <<>> /\ outR[w] = <<>>)

\* The daemon processes run as long as the parent does.
Running(w) == w \in Procs /\ opc # "done"

\* ------------------------------------------------------------ the worker
\* Mutant: the worker never looks at found_evt.
CancelledNever == FALSE

\* found_evt.is_set()
Cancelled == found_evt

\* Mutant: the batch is put one attempt late.
BatchDueLate(n) == n % (report_every + 1) = 0

\* attempts % report_every == 0
BatchDue(n) == n % report_every = 0

\* Mutant: the buffered count is not put.
FlushedNothing(w) == outP[w]

\* The worker's buffer of progress_q after `if attempts: progress_q.put(attempts)`.
Flushed(w) == IF attempts[w] # 0 THEN Append(outP[w], attempts[w]) ELSE outP[w]

\* with zipfile.ZipFile(zip_path, 'r') as zf: a failure to open the archive
\* is caught by the outer handler, with attempts = 0.
WorkerOpen(w) ==
    /\ Running(w) /\ wpc[w] = "open"
    /\ IF archive = "unreadable"
       THEN /\ pending' = [pending EXCEPT ![w] = <<"ERROR", <<>>>>]
            /\ wpc' = [wpc EXCEPT ![w] = "flush"]
       ELSE /\ wpc' = [wpc EXCEPT ![w] = "loop"]
            /\ UNCHANGED pending
    /\ UNCHANGED <<cfgVars, faultsLeft, sharedVars, procs, pidx, tidx,
                   attempts, outP, outR, orchVars, histVars>>

\* The head of the loops: the next `first` and `tail`, and the reads of
\* found_evt (line 60 for a new `first`, line 63 for every tail; two reads
\* in a row of a flag that is never cleared act as one). With both loops
\* over, the remaining count is put and the worker returns.
WorkerCheck(w) ==
    /\ Running(w) /\ wpc[w] = "loop"
    /\ IF pidx[w] > Len(procs[w])
       THEN /\ wpc' = [wpc EXCEPT ![w] = "returned"]
            /\ outP' = [outP EXCEPT ![w] = Flushed(w)]
            /\ sent' = [sent EXCEPT ![w] = @ + SumSeq(Flushed(w)) - SumSeq(outP[w])]
       ELSE IF Cancelled
       THEN \* return, with nothing put
            /\ wpc' = [wpc EXCEPT ![w] = "returned"]
            /\ UNCHANGED <<outP, sent>>
       ELSE /\ wpc' = [wpc EXCEPT ![w] = "count"]
            /\ UNCHANGED <<outP, sent>>
    /\ UNCHANGED <<cfgVars, faultsLeft, sharedVars, procs, pidx, tidx,
                   attempts, outR, pending, orchVars, tried, emitted, received,
                   sentAtEmit, sentAtSet,
                   callsAtSet>>

\* attempts += 1; if attempts % report_every == 0: progress_q.put(attempts);
\* attempts = 0
WorkerCount(w) ==
    /\ Running(w) /\ wpc[w] = "count"
    /\ wpc' = [wpc EXCEPT ![w] = "verify"]
    /\ IF BatchDue(attempts[w] + 1)
       THEN /\ outP' = [outP EXCEPT ![w] = Append(@, attempts[w] + 1)]
            /\ sent' = [sent EXCEPT ![w] = @ + attempts[w] + 1]
            /\ attempts' = [attempts EXCEPT ![w] = 0]
       ELSE /\ attempts' = [attempts EXCEPT ![w] = @ + 1]
            /\ UNCHANGED <<outP, sent>>
    /\ UNCHANGED <<cfgVars, faultsLeft, sharedVars, procs, pidx, tidx, outR,
                   pending, orchVars, tried, emitted, received, sentAtEmit,
                   sentAtSet, callsAtSet>>

\* Mutant: the tail is put before the first character.
CandidateSwapped(w) == Tails[tidx[w]] \o <<procs[w][pidx[w]]>>

\* pwd_str = first + ''.join(tail)
Candidate(w) == <<procs[w][pidx[w]]>> \o Tails[tidx[w]]

\* What zf.read(target_name, pwd) can do for a candidate: return (the
\* password is right), raise RuntimeError (wrong password), raise
\* NotImplementedError (unsupported scheme: whatever the password), or, for
\* a wrong password, raise another Exception.
VerifierResults(cand) ==
    IF archive = "unsupported" THEN {"NotImplementedError"}
    ELSE IF cand = target THEN {"return"}
    ELSE {"RuntimeError"} \cup (IF faultsLeft > 0 THEN {"Exception"} ELSE {})

\* The classes an exception is an instance of (NotImplementedError is a
\* subclass of RuntimeError in Python).
Bases(exc) ==
    IF exc = "NotImplementedError"
    THEN {"NotImplementedError", "RuntimeError", "Exception"}
    ELSE IF exc = "RuntimeError" THEN {"RuntimeError", "Exception"}
    ELSE {"Exception"}

\* The except clauses of the inner try, in the order written.
Clauses == <<"RuntimeError", "NotImplementedError", "Exception">>

\* Mutant: every exception of the verifier ends the worker as unsupported.
HandlerUnsupported(exc) == "NotImplementedError"

\* The clause that handles an exception: the first one it is an instance of.
Handler(exc) ==
    Clauses[CHOOSE i \in 1..Len(Clauses) :
              /\ Clauses[i] \in Bases(exc)
              /\ \A j \in 1..(i - 1) : Clauses[j] \notin Bases(exc)]

\* `continue`: the next tail, or the first tail of the next `first`.
NextPidx(w) == IF tidx[w] = Len(Tails) THEN pidx[w] + 1 ELSE pidx[w]
NextTidx(w) == IF tidx[w] = Len(Tails) THEN 1 ELSE tidx[w] + 1

\* zf.read(target_name, pwd=...) and what follows it: on return the worker
\* goes on to report FOUND; the NotImplementedError clause goes on to report
\* UNSUPPORTED; the RuntimeError and Exception clauses `continue`.
WorkerVerify(w) ==
    /\ Running(w) /\ wpc[w] = "verify"
    /\ tried' = [tried EXCEPT ![w] = Append(@, Candidate(w))]
    /\ \E r \in VerifierResults(Candidate(w)) :
         /\ faultsLeft' = IF r = "Exception" THEN faultsLeft - 1 ELSE faultsLeft
         /\ IF r = "return"
            THEN /\ pending' = [pending EXCEPT ![w] = <<"FOUND", Candidate(w)>>]
                 /\ wpc' = [wpc EXCEPT ![w] = "flush"]
                 /\ UNCHANGED <<pidx, tidx>>
            ELSE IF Handler(r) = "NotImplementedError"
            THEN /\ pending' = [pending EXCEPT ![w] = <<"UNSUPPORTED", <<>>>>]
                 /\ wpc' = [wpc EXCEPT ![w] = "flush"]
                 /\ UNCHANGED <<pidx, tidx>>
            ELSE /\ pidx' = [pidx EXCEPT ![w] = NextPidx(w)]
                 /\ tidx' = [tidx EXCEPT ![w] = NextTidx(w)]
                 /\ wpc' = [wpc EXCEPT ![w] = "loop"]
                 /\ UNCHANGED pending
    /\ UNCHANGED <<cfgVars, sharedVars, procs, attempts, outP, outR,
                   orchVars, sent, emitted, received, sentAtEmit, sentAtSet,
                   callsAtSet>>

\* if attempts: progress_q.put(attempts)   (lines 78-79, 88-89, 100-101)
WorkerFlush(w) ==
    /\ Running(w) /\ wpc[w] = "flush"
    /\ outP' = [outP EXCEPT ![w] = Flushed(w)]
    /\ sent' = [sent EXCEPT ![w] = @ + SumSeq(Flushed(w)) - SumSeq(outP[w])]
    /\ wpc' = [wpc EXCEPT ![w] = "emit"]
    /\ UNCHANGED <<cfgVars, faultsLeft, sharedVars, procs, pidx, tidx,
                   attempts, outR, pending, orchVars, tried, emitted,
                   received, sentAtEmit, sentAtSet,
                   callsAtSet>>

\* Mutant: the Outcome is not put before the signal is set.
WorkerEmitNothing(w) ==
    /\ Running(w) /\ wpc[w] = "emit"
    /\ wpc' = [wpc EXCEPT ![w] = "signal"]
    /\ UNCHANGED <<cfgVars, faultsLeft, sharedVars, procs, pidx, tidx,
                   attempts, outP, outR, pending, orchVars, histVars>>

\* result_q.put((kind, payload))   (lines 80, 90, 102)
WorkerEmit(w) ==
    /\ Running(w) /\ wpc[w] = "emit"
    /\ outR' = [outR EXCEPT ![w] = Append(@, pending[w])]
    /\ emitted' = Append(emitted, <<w, pending[w][1]>>)
    /\ sentAtEmit' = IF emitted = <<>> THEN sent ELSE sentAtEmit
    /\ wpc' = [wpc EXCEPT ![w] = "signal"]
    /\ UNCHANGED <<cfgVars, faultsLeft, sharedVars, procs, pidx, tidx,
                   attempts, outP, pending, orchVars, tried, sent, received,
                   sentAtSet, callsAtSet>>

\* found_evt.set(); return   (lines 81-82, 91-92, 103)
WorkerSignal(w) ==
    /\ Running(w) /\ wpc[w] = "signal"
    /\ found_evt' = TRUE
    /\ sentAtSet' = IF found_evt THEN sentAtSet ELSE sent
    /\ callsAtSet' = IF found_evt THEN callsAtSet
                     ELSE [x \in Procs |-> Len(tried[x])]
    /\ wpc' = [wpc EXCEPT ![w] = "returned"]
    /\ UNCHANGED <<cfgVars, faultsLeft, result_q, progress_q, procs, pidx,
                   tidx, attempts, outP, outR, pending, orchVars, tried, sent,
                   emitted, received, sentAtEmit>>

\* The feeder thread of progress_q in worker w writes the oldest item.
FeedProgress(w) ==
    /\ Running(w) /\ outP[w] # <<>>
    /\ progress_q' = Append(progress_q, Head(outP[w]))
    /\ outP' = [outP EXCEPT ![w] = Tail(@)]
    /\ UNCHANGED <<cfgVars, faultsLeft, found_evt, result_q, procs, wpc, pidx,
                   tidx, attempts, outR, pending, orchVars, histVars>>

\* The feeder thread of result_q in worker w writes the oldest item.
FeedResult(w) ==
    /\ Running(w) /\ outR[w] # <<>>
    /\ result_q' = Append(result_q, Head(outR[w]))
    /\ outR' = [outR EXCEPT ![w] = Tail(@)]
    /\ UNCHANGED <<cfgVars, faultsLeft, found_evt, progress_q, procs, wpc,
                   pidx, tidx, attempts, outP, pending, orchVars, histVars>>

\* ------------------------------------------------------ the orchestrator
\* Mutant: target_name is not checked.
NoMemberNever == FALSE

\* `not target_name`: _pick_smallest_member found no file in the archive.
NoMember == archive = "empty"

\* target_name = _pick_smallest_member(zip_path); if not target_name: return
\* None. Otherwise the buckets are built and one process is started for each
\* bucket that is not empty.
Setup ==
    /\ opc = "setup"
    /\ IF NoMember
       THEN /\ opc' = "done"
            /\ report' = "no_member"
            /\ returned' = None
            /\ UNCHANGED <<workerVars, histVars>>
       ELSE LET started == StartedBuckets(alphabet, workers)
                P == 1..Len(started)
            IN  /\ procs' = started
                /\ wpc' = [w \in P |-> "open"]
                /\ pidx' = [w \in P |-> 1]
                /\ tidx' = [w \in P |-> 1]
                /\ attempts' = [w \in P |-> 0]
                /\ outP' = [w \in P |-> <<>>]
                /\ outR' = [w \in P |-> <<>>]
                /\ pending' = [w \in P |-> NoOutcome]
                /\ tried' = [w \in P |-> <<>>]
                /\ sent' = [w \in P |-> 0]
                /\ opc' = "loop"
                /\ UNCHANGED <<report, returned, emitted, received, sentAtEmit,
                               sentAtSet, callsAtSet>>
    /\ UNCHANGED <<cfgVars, faultsLeft, sharedVars, total_attempts, found_pwd,
                   status, password_txt, extracted>>

\* while any(p.is_alive() for p in procs):
LoopTest ==
    /\ opc = "loop"
    /\ opc' = IF \E w \in Procs : Alive(w) THEN "drain" ELSE "final"
    /\ UNCHANGED <<cfgVars, faultsLeft, sharedVars, workerVars, total_attempts,
                   found_pwd, status, report, returned, password_txt,
                   extracted, histVars>>

\* Mutant: a ProgressDelta is added twice.
GetNowaitTwice(at, after) ==
    /\ opc = at
    /\ IF progress_q # <<>>
       THEN /\ total_attempts' = total_attempts + 2 * Head(progress_q)
            /\ progress_q' = Tail(progress_q)
            /\ UNCHANGED opc
       ELSE /\ opc' = after
            /\ UNCHANGED <<total_attempts, progress_q>>
    /\ UNCHANGED <<cfgVars, faultsLeft, found_evt, result_q, workerVars,
                   found_pwd, status, report, returned, password_txt,
                   extracted, histVars>>

\* One progress_q.get_nowait() of a drain loop: an item of the pipe is added
\* to total_attempts; with the pipe empty the loop is left for `after`.
GetNowait(at, after) ==
    /\ opc = at
    /\ IF progress_q # <<>>
       THEN /\ total_attempts' = total_attempts + Head(progress_q)
            /\ progress_q' = Tail(progress_q)
            /\ UNCHANGED opc
       ELSE /\ opc' = after
            /\ UNCHANGED <<total_attempts, progress_q>>
    /\ UNCHANGED <<cfgVars, faultsLeft, found_evt, result_q, workerVars,
                   found_pwd, status, report, returned, password_txt,
                   extracted, histVars>>

\* The drain of the main loop (lines 162-169).
Drain == GetNowait("drain", "poll")

\* Mutant: the loop is also left, with the signal set, on queue.Empty.
PollAlwaysCancels ==
    /\ opc = "poll"
    /\ opc' = "cancel"
    /\ IF result_q # <<>>
       THEN /\ result_q' = Tail(result_q)
            /\ received' = Append(received, Head(result_q))
            /\ status' = Head(result_q)[1]
            /\ found_pwd' = IF Head(result_q)[1] = "FOUND"
                            THEN Head(result_q)[2] ELSE found_pwd
       ELSE UNCHANGED <<result_q, received, status, found_pwd>>
    /\ UNCHANGED <<cfgVars, faultsLeft, found_evt, progress_q, workerVars,
                   total_attempts, report, returned, password_txt, extracted,
                   tried, sent, emitted, sentAtEmit, sentAtSet, callsAtSet>>

\* kind, payload = result_q.get(timeout=0.1): the oldest message of the
\* pipe, or queue.Empty when the wait ends with none.
Poll ==
    /\ opc = "poll"
    /\ IF result_q # <<>>
       THEN LET kind == Head(result_q)[1]
                payload == Head(result_q)[2]
            IN  /\ result_q' = Tail(result_q)
                /\ received' = Append(received, Head(result_q))
                /\ status' = kind
                /\ found_pwd' = IF kind = "FOUND" THEN payload ELSE found_pwd
                /\ opc' = IF kind \in {"FOUND", "UNSUPPORTED", "ERROR"}
                          THEN "cancel" ELSE "loop"
       ELSE /\ opc' = "loop"
            /\ UNCHANGED <<result_q, received, status, found_pwd>>
    /\ UNCHANGED <<cfgVars, faultsLeft, found_evt, progress_q, workerVars,
                   total_attempts, report, returned, password_txt, extracted,
                   tried, sent, emitted, sentAtEmit, sentAtSet,
                   callsAtSet>>

\* found_evt.set(); break
Cancel ==
    /\ opc = "cancel"
    /\ found_evt' = TRUE
    /\ sentAtSet' = IF found_evt THEN sentAtSet ELSE sent
    /\ callsAtSet' = IF found_evt THEN callsAtSet
                     ELSE [x \in Procs |-> Len(tried[x])]
    /\ opc' = "final"
    /\ UNCHANGED <<cfgVars, faultsLeft, result_q, progress_q, workerVars,
                   total_attempts, found_pwd, status, report, returned,
                   password_txt, extracted, tried, sent, emitted, received,
                   sentAtEmit>>

\* The last drain (lines 193-199).
FinalDrain == GetNowait("final", "join")

\* Mutant: the success branch is taken on any received Outcome.
FinishUnguarded ==
    /\ opc = "join"
    /\ opc' = "done"
    /\ IF status # "None"
       THEN /\ report' = "found"
            /\ password_txt' = found_pwd
            /\ extracted' = TRUE
            /\ returned' = found_pwd
       ELSE /\ report' = "exhausted"
            /\ returned' = None
            /\ UNCHANGED <<password_txt, extracted>>
    /\ UNCHANGED <<cfgVars, faultsLeft, sharedVars, workerVars,
                   total_attempts, found_pwd, status, histVars>>

\* p.join(timeout=1.0) for every process (each returns when the process has
\* ended or after the timeout), then the final report and the return.
Finish ==
    /\ opc = "join"
    /\ opc' = "done"
    /\ IF found_pwd # None
       THEN /\ report' = "found"
            /\ password_txt' = found_pwd
            /\ extracted' = TRUE
            /\ returned' = found_pwd
       ELSE /\ report' = IF status = "UNSUPPORTED" THEN "unsupported"
                         ELSE IF status = "ERROR" THEN "error"
                         ELSE "exhausted"
            /\ returned' = None
            /\ UNCHANGED <<password_txt, extracted>>
    /\ UNCHANGED <<cfgVars, faultsLeft, sharedVars, workerVars,
                   total_attempts, found_pwd, status, histVars>>

Next ==
    \/ Setup
    \/ LoopTest
    \/ Drain
    \/ Poll
    \/ Cancel
    \/ FinalDrain
    \/ Finish
    \/ \E w \in Procs : WorkerOpen(w)
    \/ \E w \in Procs : WorkerCheck(w)
    \/ \E w \in Procs : WorkerCount(w)
    \/ \E w \in Procs : WorkerVerify(w)
    \/ \E w \in Procs : WorkerFlush(w)
    \/ \E w \in Procs : WorkerEmit(w)
    \/ \E w \in Procs : WorkerSignal(w)
    \/ \E w \in Procs : FeedProgress(w)
    \/ \E w \in Procs : FeedResult(w)

Spec == Init /\ [][Next]_vars
SpecSolo == InitSolo /\ [][Next]_vars

\* The steps of unlock_zip, and those of the main thread of worker w.
Orchestrator ==
    Setup \/ LoopTest \/ Drain \/ Poll \/ Cancel \/ FinalDrain \/ Finish

WorkerStep(w) ==
    \/ WorkerOpen(w) \/ WorkerCheck(w) \/ WorkerCount(w) \/ WorkerVerify(w)
    \/ WorkerFlush(w) \/ WorkerEmit(w) \/ WorkerSignal(w)

\* The operating system gives every process and every thread that can run a
\* turn: the parent, the main thread of each worker and its two feeder
\* threads.
Fairness ==
    /\ WF_vars(Orchestrator)
    /\ \A w \in 1..LiveAlpha :
         /\ WF_vars(WorkerStep(w))
         /\ WF_vars(FeedProgress(w))
         /\ WF_vars(FeedResult(w))

SpecLive == InitLive /\ [][Next]_vars /\ Fairness

\* ------------------------------------------------------------ the claims
Done == opc = "done"
Space == Candidates(alphabet, length)

\* The number of verifier calls made with candidate c, by all workers.
Occ(c) == Cardinality({ x \in Procs \X (1..Cardinality(Space)) :
                          x[2] <= Len(tried[x[1]]) /\ tried[x[1]][x[2]] = c })

\* The number of verifier calls made by all workers.
Calls == SumSeq([w \in Procs |-> Len(tried[w])])

\* Every worker has left its loops with its prefixes exhausted.
AllExhausted ==
    /\ procs # <<>>
    /\ \A w \in Procs : wpc[w] = "returned" /\ pidx[w] > Len(procs[w])

\* The round-robin partition gives each character to exactly one bucket, once.
PartitionOnce(alph, W) ==
    LET buckets == Buckets(alph, W)
    IN  \A i \in 1..Len(alph) :
          Cardinality({ x \in (1..W) \X (1..Len(alph)) :
                          x[2] <= Len(buckets[x[1]])
                          /\ buckets[x[1]][x[2]] = alph[i] }) = 1

\* The started workers' enumerations, one after the other, hold every
\* string of alph^len exactly once.
EnumerationOnce(alph, len, W) ==
    LET started == StartedBuckets(alph, W)
        all == Flatten([b \in 1..Len(started) |->
                          Enumerate(started[b], alph, len)])
    IN  /\ Len(all) = Cardinality(Candidates(alph, len))
        /\ Range(all) = Candidates(alph, len)

PureConfigs ==
    { c \in [n : 1..SoloAlpha, len : 1..SoloLen,
             w : 1..(SoloAlpha + PureExtraWorkers)] :
        c.w <= c.n + PureExtraWorkers }

\* The partition and the enumeration as functions of their inputs.
PureExactlyOnce ==
    \A c \in PureConfigs :
        /\ PartitionOnce(Alphabet(c.n), c.w)
        /\ EnumerationOnce(Alphabet(c.n), c.len, c.w)

\* C1: for every alphabet, length and worker count >= 1, the round-robin
\* partition gives each first character to exactly one worker, and the
\* workers together enumerate every string of A^L exactly once. As functions
\* (PureConfigs), and in the runs: no candidate is ever verified twice, and
\* when every worker has exhausted its prefixes every candidate of the space
\* was verified exactly once.
C1_PartitionExactlyOnce ==
    /\ PureExactlyOnce
    /\ PartitionOnce(alphabet, workers)
    /\ \A w \in Procs : Range(tried[w]) \subseteq Space
    /\ \A c \in Space : Occ(c) <= 1
    /\ AllExhausted => \A c \in Space : Occ(c) = 1

C1_Witness ==
    /\ AllExhausted
    /\ ~found_evt
    /\ Len(procs) >= 2
    /\ Cardinality(Space) >= 4
    /\ workers > Len(alphabet)

\* C2 (as claimed): when the target is in the search space and the verifier
\* matches it only, every run ends reporting Found and returning the target.
TargetInSpace == archive = "ok" /\ target \in Space

C2_AlwaysFound ==
    (Done /\ TargetInSpace) => (report = "found" /\ returned = target)

\* C3: when every verifier call is a mismatch, the run ends reporting
\* exhaustion, every candidate was verified exactly once and the final
\* total_attempts is |A|^L.
AllMismatch ==
    archive = "ok" /\ target = NoTarget /\ faultsLeft = MaxTransient

C3_ExhaustedCountsAll ==
    (Done /\ AllMismatch) =>
        /\ report = "exhausted"
        /\ returned = None
        /\ \A c \in Space : Occ(c) = 1
        /\ total_attempts = Pow(Len(alphabet), length)

C3_Witness ==
    /\ Done /\ AllMismatch
    /\ Len(procs) >= 2
    /\ report_every >= 2
    /\ total_attempts = 4

\* C4 (as claimed): at most one non-Exhausted Outcome (FOUND, UNSUPPORTED or
\* ERROR) is ever put on the result channel by all workers together.
C4_AtMostOneOutcome == Len(emitted) <= 1

\* C4 (amended): every worker puts at most one Outcome on the result
\* channel, and at most one of the Outcomes of a run is FOUND.
C4_OneOutcomePerWorker ==
    /\ \A i, j \in 1..Len(emitted) : i # j => emitted[i][1] # emitted[j][1]
    /\ Cardinality({ i \in 1..Len(emitted) : emitted[i][2] = "FOUND" }) <= 1

C4_Witness == Len(emitted) >= 2

\* The log line of a received Outcome.
ReportOf(kind) ==
    IF kind = "FOUND" THEN "found"
    ELSE IF kind = "UNSUPPORTED" THEN "unsupported" ELSE "error"

\* C5 (as claimed): when several workers have put terminal Outcomes, the
\* orchestrator acts on exactly one: it reads one result message, the first
\* it receives, and that message determines the reported status.
C5_ActsOnExactlyOne ==
    (Done /\ Len(emitted) >= 2) =>
        /\ Len(received) = 1
        /\ report = ReportOf(received[1][1])

\* C6 (as claimed): a run in which some worker put FOUND, UNSUPPORTED or
\* ERROR on the result channel never ends with the exhausted report.
C6_ExhaustedOnlyWithoutOutcome ==
    (Done /\ emitted # <<>>) => report # "exhausted"

\* C7 (as claimed): at the end of every run the orchestrator's total equals
\* the number of verifier calls made by all workers.
C7_TotalEqualsCalls == Done => total_attempts = Calls

\* C8 (as claimed): once any worker has put a non-Exhausted Outcome, every
\* worker puts at most report_every further attempts on the progress channel.
C8_BoundedAfterOutcome ==
    emitted # <<>> =>
        \A w \in Procs : sent[w] - sentAtEmit[w] <= report_every

\* C8 (amended): once the cancellation signal is set, every worker puts at
\* most report_every further attempts on the progress channel.
C8_BoundedAfterSignal ==
    found_evt => \A w \in Procs : sent[w] - sentAtSet[w] <= report_every

C8_Witness ==
    /\ found_evt
    /\ Len(procs) >= 2
    /\ \E w \in Procs : sent[w] - sentAtSet[w] >= 1

\* Lexicographic order of two candidates of the same length.
LexLess(a, b) ==
    \E k \in 1..Len(a) : a[k] < b[k] /\ \A j \in 1..(k - 1) : a[j] = b[j]

\* The number of candidates before c in the lexicographic enumeration.
Rank(c) == Cardinality({ d \in Space : LexLess(d, c) })

\* The lexicographic enumeration of the space, cut right after c.
CutAfter(c) ==
    [i \in 1..(Rank(c) + 1) |-> CHOOSE d \in Space : Rank(d) = i - 1]

IsPrefix(s, t) == Len(s) <= Len(t) /\ s = SubSeq(t, 1, Len(s))

\* C9 (as claimed): with one worker, the verifier calls are the
\* lexicographic enumeration of A^L cut right after the target, and the
\* total attempt count at the end is the rank of the target plus one (for
\* alphabet abc, length 2, target bc: aa ab ac ba bb bc, and 6).
C9_SoloLexicographicCut ==
    (TargetInSpace /\ procs # <<>>) =>
        /\ Len(procs) = 1
        /\ IsPrefix(tried[1], CutAfter(target))
        /\ Done => /\ tried[1] = CutAfter(target)
                   /\ total_attempts = Rank(target) + 1

\* C10 (as claimed): when the verifier reports Unsupported on the first
\* attempt, the run ends with status Unsupported, a total attempt count of 1
\* and a single candidate verified.
C10_UnsupportedFirst ==
    (Done /\ archive = "unsupported") =>
        /\ report = "unsupported"
        /\ total_attempts = 1
        /\ Calls = 1

\* Worker w has put an Outcome on the result channel.
Emitter(w) == \E i \in 1..Len(emitted) : emitted[i][1] = w

\* Worker w ended in the outer handler (lines 99-103).
Faulted(w) == wpc[w] = "returned" /\ pending[w][1] = "ERROR"

\* The worker's part of C11: a worker that ended in the outer handler has put
\* everything it counted, has put ERROR and has set the signal.
FaultHandled ==
    \A w \in Procs :
        Faulted(w) => /\ sent[w] = Len(tried[w])
                      /\ Emitter(w)
                      /\ found_evt

\* C11 (as claimed): an unexpected fault in a worker never ends it silently:
\* the worker flushes its count, puts ERROR and sets the signal, and the run
\* is reported as a worker-error failure, not as exhaustion.
C11_FaultNeverSilent ==
    /\ FaultHandled
    /\ (Done /\ \E w \in Procs : Faulted(w)) => report = "error"

\* The candidates for which a verifier call returned (Match).
Matched ==
    { c \in UNION { Range(tried[w]) : w \in Procs } :
        "return" \in VerifierResults(c) }

\* C12: unlock_zip returns a candidate, writes it to password.txt and
\* extracts only if a worker's verifier call returned for exactly that
\* candidate; otherwise it returns None, writes nothing and extracts nothing.
C12_ReturnsOnlyMatch ==
    /\ returned # None => /\ returned \in Matched
                          /\ password_txt = returned
                          /\ extracted
    /\ returned = None => (password_txt = None /\ ~extracted)

C12_Witness ==
    /\ Done
    /\ returned # None
    /\ Len(procs) >= 2
    /\ \E w \in Procs : Len(tried[w]) >= 2

\* C13: with no file in the archive the run fails fast: no worker is
\* started, no candidate is verified, nothing is put on either channel and
\* the run returns no candidate.
C13_SetupFailsFast ==
    archive = "empty" =>
        /\ procs = <<>>
        /\ tried = <<>>
        /\ emitted = <<>> /\ result_q = <<>>
        /\ sent = <<>> /\ progress_q = <<>>
        /\ ~found_evt
        /\ returned = None /\ password_txt = None /\ ~extracted
        /\ Done => report = "no_member"

C13_Witness == Done /\ archive = "empty" /\ workers >= 2

\* Worker w returned at line 61 or 64, on reading the signal as set.
StoppedByCancel(w) ==
    wpc[w] = "returned" /\ pending[w] = NoOutcome /\ pidx[w] <= Len(procs[w])

\* C14: every worker reads the signal before each verifier call and stops,
\* without that call and without an Outcome, when it reads it as set; so a
\* worker makes at most one verifier call after the signal is set.
C14_CheckBeforeEachCall ==
    /\ found_evt => \A w \in Procs : Len(tried[w]) - callsAtSet[w] <= 1
    /\ \A w \in Procs :
         StoppedByCancel(w) => /\ found_evt
                               /\ ~Emitter(w)
                               /\ outR[w] = <<>>

C14_Witness ==
    \E w \in Procs : /\ StoppedByCancel(w)
                     /\ Len(tried[w]) - callsAtSet[w] = 1
                     /\ Len(procs) >= 2

\* C15: on Match a worker puts its buffered count, then puts FOUND, then
\* sets the signal, then returns: a worker that is about to set the signal
\* or has set it has put its Outcome, and one that has put its Outcome has
\* put every attempt it counted.
C15_MatchOrder ==
    \A w \in Procs :
        pending[w][1] = "FOUND" =>
            /\ wpc[w] \in {"flush", "emit", "signal", "returned"}
            /\ wpc[w] \in {"flush", "emit"} => ~Emitter(w)
            /\ wpc[w] \in {"emit", "signal", "returned"} =>
                   sent[w] = Len(tried[w])
            /\ wpc[w] \in {"signal", "returned"} => Emitter(w)
            /\ wpc[w] = "returned" => found_evt

C15_Witness ==
    \E w \in Procs : /\ pending[w][1] = "FOUND"
                     /\ wpc[w] = "returned"
                     /\ attempts[w] # 0
                     /\ Len(procs) >= 2

\* The attempts put on the progress channel by all workers.
Sent == SumSeq([w \in Procs |-> sent[w]])

\* C16 (as claimed): after the orchestrator has received an Outcome it sets
\* the signal, and its final count includes every ProgressDelta a worker put
\* on the progress channel during the run.
C16_CountsEveryDelta ==
    (Done /\ received # <<>>) => (found_evt /\ total_attempts = Sent)

\* Worker w left its loops with its prefixes exhausted.
Exhausted(w) == wpc[w] = "returned" /\ pidx[w] > Len(procs[w])

\* C18: a worker whose partition is exhausted with no Match has put every
\* attempt it counted, has put nothing on the result channel and has not set
\* the signal (the signal is set only with an Outcome put or received).
C18_ExhaustedIsSilent ==
    /\ \A w \in Procs :
         Exhausted(w) => /\ Len(tried[w]) = Len(procs[w]) * Len(Tails)
                         /\ sent[w] = Len(tried[w])
                         /\ pending[w] = NoOutcome
                         /\ ~Emitter(w)
                         /\ outR[w] = <<>>
    /\ (\A w \in Procs : Exhausted(w)) => (~found_evt /\ result_q = <<>>)

C18_Witness ==
    /\ Len(procs) >= 2
    /\ \A w \in Procs : Exhausted(w) /\ attempts[w] # 0

\* A step in which a verifier call of worker w raises an error that is
\* neither a wrong password nor an unsupported scheme.
TransientStep(w) == WorkerVerify(w) /\ faultsLeft' < faultsLeft

\* The position in its enumeration of the candidate worker w is at.
Position(w) == (pidx[w] - 1) * Len(Tails) + tidx[w]

\* C19: a transient error of one verifier call does not abort the worker:
\* the attempt is counted, no Outcome is put, the signal is not set and the
\* worker goes on to the next candidate of its partition.
C19_TransientContinues ==
    [][\A w \in Procs :
         TransientStep(w) =>
             /\ wpc'[w] = "loop"
             /\ sent'[w] + attempts'[w] = Len(tried'[w])
             /\ pending'[w] = NoOutcome
             /\ emitted' = emitted /\ outR' = outR /\ result_q' = result_q
             /\ found_evt' = found_evt
             /\ Position(w)' = Position(w) + 1
             /\ Position(w)' = Len(tried'[w]) + 1]_vars

C19_Witness ==
    /\ faultsLeft < MaxTransient
    /\ Len(procs) >= 2
    /\ \A w \in Procs : Exhausted(w)
    /\ \A c \in Space : Occ(c) = 1

\* C20: a worker puts a ProgressDelta and resets its counter exactly when
\* the counter reaches report_every: every ProgressDelta is in
\* 1..report_every, only the last one a worker puts can be smaller than
\* report_every, and the counter is in 0..report_every-1 at every verifier
\* call.
C20_Batching ==
    /\ \A i \in 1..Len(progress_q) : progress_q[i] \in 1..report_every
    /\ \A w \in Procs :
         /\ \A i \in 1..Len(outP[w]) : outP[w][i] \in 1..report_every
         /\ \A i \in 1..(Len(outP[w]) - 1) : outP[w][i] = report_every
         /\ attempts[w] \in 0..(report_every - 1)
         /\ wpc[w] \in {"loop", "count"} =>
                sent[w] = report_every * (Len(tried[w]) \div report_every)
         /\ wpc[w] \in {"loop", "count"} =>
                attempts[w] = Len(tried[w]) % report_every

C20_Witness ==
    \E w \in Procs : /\ wpc[w] = "verify"
                     /\ report_every >= 2
                     /\ attempts[w] = 0
                     /\ sent[w] = report_every

\* Worker w has been started and _worker has returned.
Stopped(w) == w \in Procs /\ wpc[w] = "returned"

Min(a, b) == IF a < b THEN a ELSE b

\* The partition as a function: the character at 0-based index i is in
\* bucket i mod W (after the characters i - W, i - 2W, ... of that bucket),
\* min(W, |A|) buckets are started, none of them empty, and more workers
\* than characters start the same buckets as |A| workers.
RoundRobin(alph, W) ==
    LET buckets == Buckets(alph, W)
        started == StartedBuckets(alph, W)
    IN  /\ \A i \in 0..(Len(alph) - 1) :
              /\ (i \div W) + 1 <= Len(buckets[(i % W) + 1])
              /\ buckets[(i % W) + 1][(i \div W) + 1] = alph[i + 1]
        /\ SumSeq([b \in 1..W |-> Len(buckets[b])]) = Len(alph)
        /\ Len(started) = Min(W, Len(alph))
        /\ \A b \in 1..Len(started) : started[b] # <<>>
        /\ W > Len(alph) => started = StartedBuckets(alph, Len(alph))

PureRoundRobin == \A c \in PureConfigs : RoundRobin(Alphabet(c.n), c.w)

\* C21: the character at index i goes to bucket i mod worker_count, exactly
\* min(worker_count, |alphabet|) workers are started, none with an empty
\* partition, and with worker_count > |alphabet| the started workers are
\* those of worker_count = |alphabet| (one character each, in order), so the
\* run has the same behaviours and terminal outcomes.
C21_RoundRobinSkipsEmpty ==
    /\ PureRoundRobin
    /\ (opc # "setup" /\ ~NoMember) =>
           /\ Len(procs) = Min(workers, Len(alphabet))
           /\ \A w \in Procs : procs[w] # <<>>
           /\ \A i \in 0..(Len(alphabet) - 1) :
                  /\ (i % workers) + 1 \in Procs
                  /\ (i \div workers) + 1 <= Len(procs[(i % workers) + 1])
                  /\ procs[(i % workers) + 1][(i \div workers) + 1] = alphabet[i + 1]
           /\ workers > Len(alphabet) =>
                  procs = [w \in 1..Len(alphabet) |-> <<alphabet[w]>>]

C21_Witness ==
    /\ Done
    /\ Len(alphabet) >= 2
    /\ workers > Len(alphabet)
    /\ Len(procs) = Len(alphabet)
    /\ report = "found"

\* A sequence of candidates is strictly increasing in lexicographic order
\* (the order of the characters is their order in ALLOWED).
Increasing(cands) ==
    \A i \in 1..(Len(cands) - 1) : LexLess(cands[i], cands[i + 1])

\* The enumeration as a function: for every bucket of every partition, the
\* candidates are, for each first character in the order given, all the
\* suffixes in lexicographic order; the whole is strictly increasing.
LexEnumeration(alph, len, W) ==
    LET started == StartedBuckets(alph, W)
        T == Pow(Len(alph), len - 1)
    IN  \A b \in 1..Len(started) :
            LET e == Enumerate(started[b], alph, len)
            IN  /\ Len(e) = Len(started[b]) * T
                /\ Increasing(e)
                /\ \A i \in 0..(Len(e) - 1) : e[i + 1][1] = started[b][(i \div T) + 1]

PureLexEnumeration ==
    \A c \in PureConfigs : LexEnumeration(Alphabet(c.n), c.len, c.w)

\* C22: within one worker, for any worker count, the candidates are
\* verified in strictly increasing lexicographic order: the assigned first
\* characters in the order given, and for each one every suffix in
\* lexicographic order before the next first character.
C22_WorkerLexicographic ==
    /\ PureLexEnumeration
    /\ \A w \in Procs :
         /\ Increasing(tried[w])
         /\ IsPrefix(tried[w], Enumerate(procs[w], alphabet, length))

C22_Witness ==
    \E w \in Procs : /\ Len(procs[w]) >= 2
                     /\ Len(tried[w]) >= 3
                     /\ tried[w][3][1] = procs[w][2]

\* The progress messages put and not yet consumed: in the pipe of
\* progress_q and in the workers' feeder buffers.
Queued == Len(progress_q) + SumSeq([w \in Procs |-> Len(outP[w])])

\* C23 (as claimed): the progress channel has a bounded depth that does not
\* grow with the search space: with a batch size of 1, the queued,
\* unconsumed progress messages stay fewer than the candidates of the space.
C23_BoundedProgressChannel ==
    (report_every = 1 /\ Len(alphabet) >= 2 /\ length >= 2) =>
        Queued < Cardinality(Space)

\* C24: the signal is set-once: once set it stays set, and it is set only
\* after a FOUND, UNSUPPORTED or ERROR Outcome was put on the result channel.
C24_SetOnce ==
    /\ [](found_evt => emitted # <<>>)
    /\ [][found_evt => found_evt']_vars

C24_Witness ==
    /\ Done
    /\ found_evt
    /\ received # <<>>
    /\ Len(procs) >= 2
    /\ \A w \in Procs : Stopped(w)

\* The attempts started: the increments of the workers' counters (line 67).
Started ==
    SumSeq([w \in Procs |->
              Len(tried[w]) + (IF wpc[w] = "verify" THEN 1 ELSE 0)])

\* The attempts in the ProgressDeltas put and not yet consumed.
QueuedAttempts ==
    SumSeq(progress_q) + SumSeq([w \in Procs |-> SumSeq(outP[w])])

\* The workers' local counters.
Counters == SumSeq([w \in Procs |-> attempts[w]])

\* The local counters of the workers that have not put their last
\* ProgressDelta (attempts is not reset by the puts of lines 79, 89, 98, 101).
LiveCounters ==
    SumSeq([w \in Procs |->
              IF wpc[w] \in {"open", "loop", "count", "verify", "flush"}
              THEN attempts[w] ELSE 0])

NoCancelStop == \A w \in Procs : ~StoppedByCancel(w)

\* C25 (as claimed): the running total is at most the attempts started, and
\* total + queued ProgressDeltas + all workers' local counters equals the
\* attempts started as long as no worker has stopped by cancellation.
C25_NeverOverCounts ==
    /\ total_attempts <= Started
    /\ NoCancelStop => total_attempts + QueuedAttempts + Counters = Started

\* C25 (amended): the running total never decreases and is at most the
\* attempts started, and total + queued ProgressDeltas + the local counters
\* of the workers that have not yet put their last ProgressDelta equals the
\* attempts started as long as no worker has stopped by cancellation.
C25_NeverOverCountsLive ==
    /\ [](total_attempts <= Started)
    /\ [](NoCancelStop =>
            total_attempts + QueuedAttempts + LiveCounters = Started)
    /\ [][total_attempts' >= total_attempts]_vars

C25_Witness ==
    /\ NoCancelStop
    /\ Len(procs) >= 2
    /\ total_attempts >= 1
    /\ LiveCounters >= 1
    /\ Counters > LiveCounters

====
